---- MODULE Spec2Model ----
(***************************************************************************)
(* PCDDataModule (aidsorb/datamodules.py) and the archive builder          *)
(* pcd_from_files (aidsorb/utils.py, known through tests/test_utils.py).   *)
(*                                                                         *)
(* A Python object is its attribute dictionary: a function whose DOMAIN is *)
(* the set of attributes assigned so far, so that reading an attribute     *)
(* that was never assigned is an AttributeError.  A path is the sequence   *)
(* of its components.  An Optional value is <<>> (None) or <<v>>.           *)
(***************************************************************************)
EXTENDS Integers, Sequences, FiniteSets, TLC

(* ------------------------------ bounds -------------------------------- *)

\* Longest train manifest.
MaxLen == 2

\* How many times in a row setup is called with the same stage.
MaxRepeat == 2

\* Longest list of structure files handed to pcd_from_files.
MaxFiles == 3

(* -------------------------- program constants -------------------------- *)

\* train_batch_size = eval_batch_size = 32 by default.
DefaultBatchSize == 32

(* ------------------------------ Python --------------------------------- *)

NoneVal == << >>

Some(v) == << v >>

EmptyDict == << >>

Min(a, b) == IF a <= b THEN a ELSE b

Max(a, b) == IF a >= b THEN a ELSE b

\* object.attr = value
SetAttr(obj, attr, value) == (attr :> value) @@ obj

HasAttr(obj, attr) == attr \in DOMAIN obj

\* seq[:stop], stop an Optional int: None keeps everything, a stop beyond
\* the end is clamped, a negative stop counts from the end.
PySliceTo(seq, stop) ==
    IF stop = NoneVal THEN seq
    ELSE IF stop[1] >= 0 THEN SubSeq(seq, 1, Min(stop[1], Len(seq)))
    ELSE SubSeq(seq, 1, Max(Len(seq) + stop[1], 0))

\* Path(p).parent
PathParent(p) == SubSeq(p, 1, Len(p) - 1)

\* os.path.join(dir, name)
PathJoin(dir, name) == Append(dir, name)

\* f(**explicit, **extra): a keyword given twice is a TypeError.
CallKwargs(explicit, extra) ==
    IF DOMAIN explicit \cap DOMAIN extra # {}
    THEN [outcome |-> "TypeError", value |-> EmptyDict]
    ELSE [outcome |-> "ok", value |-> explicit @@ extra]

(* ------------------------------ inputs --------------------------------- *)

\* stage None is written "None"; 'predict' is a stage Lightning also passes.
Stages == {"None", "fit", "test", "predict"}

Splits == {"train", "validation", "test", "predict"}

PathToX == << "pcd_data", "pcds.npz" >>

PathToY == << "pcd_data", "labels.csv" >>

TrainJson == PathJoin(PathParent(PathToX), "train.json")

ValidationJson == PathJoin(PathParent(PathToX), "validation.json")

TestJson == PathJoin(PathParent(PathToX), "test.json")

\* The structure names the train manifest is drawn from.
TrainPool == << "IRMOF-1", "Cu-BTC", "MOF-74", "NU-1000", "PCN-222" >>

\* The manifests a data directory may hold; a manifest may also be missing.
TrainManifests == { SubSeq(TrainPool, 1, k) : k \in 0..MaxLen }

ValidationManifests == { << "UiO-66", "ZIF-8", "MIL-53" >> }

TestManifests == { << "MOF-5", "HKUST-1" >> }

MkDisk(tr, va, te) ==
    [p \in (IF tr = NoneVal THEN {} ELSE {TrainJson})
           \cup (IF va = NoneVal THEN {} ELSE {ValidationJson})
           \cup (IF te = NoneVal THEN {} ELSE {TestJson}) |->
        IF p = TrainJson THEN tr[1]
        ELSE IF p = ValidationJson THEN va[1] ELSE te[1]]

Optional(S) == {NoneVal} \cup {Some(v) : v \in S}

Disks ==
    { MkDisk(tr, va, te) : tr \in Optional(TrainManifests),
                           va \in Optional(ValidationManifests),
                           te \in Optional(TestManifests) }

DefaultDisk ==
    MkDisk(Some(SubSeq(TrainPool, 1, MaxLen)),
           Some(<< "UiO-66", "ZIF-8", "MIL-53" >>),
           Some(<< "MOF-5", "HKUST-1" >>))

TrainSizes == Optional((0 - MaxLen) .. (MaxLen + 1))

\* A transform is a callable, named here; "None" is no transform.
TransformsX == {"None", "Center", "RandomRotation"}

TransformsY == {"None", "Standardize"}

BatchSizes == {DefaultBatchSize, 2 * DefaultBatchSize}

\* Keyword arguments that are valid for every *_dataloader: none of them is
\* one the loaders pass themselves.
DataloaderConfigs ==
    { NoneVal, Some(EmptyDict), Some("num_workers" :> 2),
      Some(("num_workers" :> 2) @@ ("drop_last" :> TRUE)) }

(* ------------------------------ state ---------------------------------- *)

VARIABLES
    self,       \* the PCDDataModule: attribute name -> value
    disk,       \* the data directory: path of a manifest -> its names
    ret,        \* the last call on the module and how it ended
    called,     \* the stages setup was called with
    done,       \* the stages setup returned normally for
    fnames,     \* pcd_from_files: the structure files given, in order
    shuffle,    \* pcd_from_files: the shuffle argument
    pairs,      \* pcd_from_files: the (name, point cloud) pairs collected
    archive,    \* the archive at outname: None, or its entries in order
    pc          \* pcd_from_files: where the build stands

vars == << self, disk, ret, called, done,
           fnames, shuffle, pairs, archive, pc >>

dmVars == << self, disk, ret, called, done >>

buildVars == << fnames, shuffle, pairs, archive, pc >>

(* --------------------------- aidsorb.data ------------------------------ *)

\* get_names(path): the ordered names of a manifest file.
get_names(d, path) ==
    IF path \in DOMAIN d
    THEN [outcome |-> "ok", value |-> d[path]]
    ELSE [outcome |-> "FileNotFoundError", value |-> << >>]

\* PCDDataset(...): keeps what it is given.
PCDDataset(pcd_names, path_to_X, path_to_Y, index_col, labels, transform_x, transform_y) ==
    [pcd_names |-> pcd_names, path_to_X |-> path_to_X,
     path_to_Y |-> path_to_Y, index_col |-> index_col, labels |-> labels,
     transform_x |-> transform_x, transform_y |-> transform_y]

\* len(dataset)
DatasetLen(ds) == Len(ds.pcd_names)

(* --------------------------- PCDDataModule ----------------------------- *)

__init__(path_to_X, path_to_Y, index_col, labels, train_size, train_transform_x, eval_transform_x, transform_y, shuffleFlag, train_batch_size, eval_batch_size, config_dataloaders) ==
    [path_to_X |-> path_to_X,
     path_to_Y |-> path_to_Y,
     index_col |-> index_col,
     labels |-> labels,
     train_transform_x |-> train_transform_x,
     eval_transform_x |-> eval_transform_x,
     transform_y |-> transform_y,
     train_size |-> train_size,
     shuffle |-> shuffleFlag,
     train_batch_size |-> train_batch_size,
     eval_batch_size |-> eval_batch_size,
     config_dataloaders |->
        IF config_dataloaders = NoneVal THEN EmptyDict
        ELSE config_dataloaders[1],
     _path_to_names |-> PathParent(path_to_X)]

\* A stage test that lets 'test' through as well.
CoversFitAlsoTest(stage) == stage \in {"None", "fit", "test"}

\* stage in (None, 'fit')
CoversFit(stage) == stage \in {"None", "fit"}

\* A stage test that lets 'fit' through as well.
CoversTestAlsoFit(stage) == stage \in {"None", "test", "fit"}

\* stage in (None, 'test')
CoversTest(stage) == stage \in {"None", "test"}

set_train_dataset(obj) ==
    SetAttr(obj, "train_dataset",
        PCDDataset(obj._train_names, obj.path_to_X, obj.path_to_Y,
                   obj.index_col, obj.labels,
                   obj.train_transform_x, obj.transform_y))

\* The validation dataset given the transform of the train split.
set_validation_dataset_train_tx(obj) ==
    SetAttr(obj, "validation_dataset",
        PCDDataset(obj._val_names, obj.path_to_X, obj.path_to_Y,
                   obj.index_col, obj.labels,
                   obj.train_transform_x, obj.transform_y))

set_validation_dataset(obj) ==
    SetAttr(obj, "validation_dataset",
        PCDDataset(obj._val_names, obj.path_to_X, obj.path_to_Y,
                   obj.index_col, obj.labels,
                   obj.eval_transform_x, obj.transform_y))

set_test_dataset(obj) ==
    SetAttr(obj, "test_dataset",
        PCDDataset(obj._test_names, obj.path_to_X, obj.path_to_Y,
                   obj.index_col, obj.labels,
                   obj.eval_transform_x, obj.transform_y))

\* Train names that extend the list of an earlier setup.
LoadTrainNamesExtend(obj, names) ==
    SetAttr(obj, "_train_names",
        (IF HasAttr(obj, "_train_names") THEN obj._train_names ELSE << >>)
            \o PySliceTo(names, obj.train_size))

\* self._train_names = get_names(.../train.json)[:self.train_size]
LoadTrainNames(obj, names) ==
    SetAttr(obj, "_train_names", PySliceTo(names, obj.train_size))

\* self._val_names = get_names(.../validation.json)
LoadValNames(obj, names) == SetAttr(obj, "_val_names", names)

\* self._test_names = get_names(.../test.json)
LoadTestNames(obj, names) == SetAttr(obj, "_test_names", names)

\* The body of "if stage in (None, 'fit')".  An exception of get_names
\* leaves the attributes assigned before it in place.
SetupFit(obj, d) ==
    LET tr == get_names(d, PathJoin(obj._path_to_names, "train.json"))
        o1 == LoadTrainNames(obj, tr.value)
        va == get_names(d, PathJoin(obj._path_to_names, "validation.json"))
        o2 == LoadValNames(o1, va.value)
    IN  IF tr.outcome # "ok" THEN [self |-> obj, outcome |-> tr.outcome]
        ELSE IF va.outcome # "ok" THEN [self |-> o1, outcome |-> va.outcome]
        ELSE [self |-> set_validation_dataset(set_train_dataset(o2)),
              outcome |-> "ok"]

\* The body of "if stage in (None, 'test')".
SetupTest(obj, d) ==
    LET te == get_names(d, PathJoin(obj._path_to_names, "test.json"))
    IN  IF te.outcome # "ok" THEN [self |-> obj, outcome |-> te.outcome]
        ELSE [self |-> set_test_dataset(LoadTestNames(obj, te.value)),
              outcome |-> "ok"]

setup(obj, d, stage) ==
    LET r1 == IF CoversFit(stage) THEN SetupFit(obj, d)
              ELSE [self |-> obj, outcome |-> "ok"]
    IN  IF r1.outcome # "ok" THEN r1
        ELSE IF CoversTest(stage) THEN SetupTest(r1.self, d)
        ELSE r1

\* DataLoader(dataset=..., batch_size=..., [shuffle=...,] **config)
DataLoader(explicit, config) == CallKwargs(explicit, config)

\* Whether a loader built from these keyword arguments shuffles: DataLoader
\* does not unless told to.
LoaderShuffles(kw) == "shuffle" \in DOMAIN kw /\ kw.shuffle

AttributeError == [outcome |-> "AttributeError", value |-> EmptyDict]

train_dataloader(obj) ==
    IF ~HasAttr(obj, "train_dataset") THEN AttributeError
    ELSE DataLoader([dataset |-> obj.train_dataset,
                     batch_size |-> obj.train_batch_size,
                     shuffle |-> obj.shuffle],
                    obj.config_dataloaders)

\* A validation loader built like the train loader.
val_dataloader_as_train(obj) ==
    IF ~HasAttr(obj, "validation_dataset") THEN AttributeError
    ELSE DataLoader([dataset |-> obj.validation_dataset,
                     batch_size |-> obj.train_batch_size,
                     shuffle |-> obj.shuffle],
                    obj.config_dataloaders)

val_dataloader(obj) ==
    IF ~HasAttr(obj, "validation_dataset") THEN AttributeError
    ELSE DataLoader([dataset |-> obj.validation_dataset,
                     batch_size |-> obj.eval_batch_size],
                    obj.config_dataloaders)

test_dataloader(obj) ==
    IF ~HasAttr(obj, "test_dataset") THEN AttributeError
    ELSE DataLoader([dataset |-> obj.test_dataset,
                     batch_size |-> obj.eval_batch_size],
                    obj.config_dataloaders)

\* The class defines no predict_dataloader: the call reaches the hook of
\* LightningDataModule, which builds no loader and raises.
predict_dataloader(obj) ==
    [outcome |-> "MisconfigurationException", value |-> EmptyDict]

(* ------------------------------ actions -------------------------------- *)

NoCall == [op |-> "none", arg |-> "None", outcome |-> "ok",
           value |-> EmptyDict, repeat |-> 0]

InitBuildIdle ==
    /\ fnames = << >>
    /\ shuffle = FALSE
    /\ pairs = << >>
    /\ archive = NoneVal
    /\ pc = "idle"

\* The module as constructed, over a data directory prepared beforehand.
\* The inputs vary in one group at a time: the manifests and train_size,
\* the transforms, or the loader options.
Init ==
    /\ \E d \in Disks, ts \in TrainSizes,
          tx \in TransformsX, ex \in TransformsX, ty \in TransformsY,
          sh \in BOOLEAN, tb \in BatchSizes, eb \in BatchSizes,
          cf \in DataloaderConfigs :
            /\ \/ /\ tx = "None" /\ ex = "None" /\ ty = "None"
                  /\ sh = FALSE /\ tb = DefaultBatchSize
                  /\ eb = DefaultBatchSize /\ cf = NoneVal
               \/ /\ d = DefaultDisk /\ ts = NoneVal
                  /\ sh = FALSE /\ tb = DefaultBatchSize
                  /\ eb = DefaultBatchSize /\ cf = NoneVal
               \/ /\ d = DefaultDisk /\ ts = NoneVal
                  /\ tx = "None" /\ ex = "None" /\ ty = "None"
            /\ self = __init__(PathToX, PathToY, "name", << "y" >>, ts,
                               tx, ex, ty, sh, tb, eb, cf)
            /\ disk = d
    /\ ret = NoCall
    /\ called = {}
    /\ done = {}
    /\ InitBuildIdle

Setup(stage) ==
    /\ (ret.op = "setup" /\ ret.arg = stage) => ret.repeat < MaxRepeat
    /\ LET r == setup(self, disk, stage)
       IN  /\ self' = r.self
           /\ ret' = [op |-> "setup", arg |-> stage, outcome |-> r.outcome,
                      value |-> EmptyDict,
                      repeat |-> IF ret.op = "setup" /\ ret.arg = stage
                                 THEN ret.repeat + 1 ELSE 1]
           /\ called' = called \cup {stage}
           /\ done' = IF r.outcome = "ok" THEN done \cup {stage} ELSE done
    /\ UNCHANGED << disk, buildVars >>

\* What a loader request leaves in ret.
LoaderRet(split, r) ==
    [op |-> "loader", arg |-> split, outcome |-> r.outcome,
     value |-> r.value, repeat |-> 0]

TrainDataloader ==
    /\ ret' = LoaderRet("train", train_dataloader(self))
    /\ UNCHANGED << self, disk, called, done, buildVars >>

ValDataloader ==
    /\ ret' = LoaderRet("validation", val_dataloader(self))
    /\ UNCHANGED << self, disk, called, done, buildVars >>

TestDataloader ==
    /\ ret' = LoaderRet("test", test_dataloader(self))
    /\ UNCHANGED << self, disk, called, done, buildVars >>

PredictDataloader ==
    /\ ret' = LoaderRet("predict", predict_dataloader(self))
    /\ UNCHANGED << self, disk, called, done, buildVars >>

Next ==
    \/ \E stage \in Stages : Setup(stage)
    \/ TrainDataloader
    \/ ValDataloader
    \/ TestDataloader
    \/ PredictDataloader

Spec == Init /\ [][Next]_vars

(* ------------------------- archive builder ----------------------------- *)

\* A structure file: its directory, its stem, its extension, its atoms.
StructureFiles ==
    { [dir |-> "samples", stem |-> "IRMOF-1", ext |-> "xyz", atoms |-> 424],
      [dir |-> "samples", stem |-> "Cu-BTC", ext |-> "cif", atoms |-> 624],
      [dir |-> "other", stem |-> "IRMOF-1", ext |-> "cif", atoms |-> 424],
      [dir |-> "other", stem |-> "notes", ext |-> "txt", atoms |-> 0] }

\* Path(f).stem: the base name, without directory and extension.
Stem(f) == f.stem

\* pcd_from_file(f): the name and the point cloud, of shape (atoms, 4), of
\* a file in a structure format; any other file does not parse.
pcd_from_file(f) ==
    IF f.ext \in {"xyz", "cif"}
    THEN [outcome |-> "ok",
          value |-> [name |-> Stem(f), pcd |-> << f.atoms, 4 >>]]
    ELSE [outcome |-> "ParseError",
          value |-> [name |-> Stem(f), pcd |-> << 0, 4 >>]]

\* A shuffle that resamples: any choice of n of the pairs.
ResampleOrders(n) == [1..n -> 1..n]

\* The orders a shuffle of n collected pairs may produce.
ShuffleOrders(n) == Permutations(1..n)

\* The archive is a mapping: storing a name again replaces its array and
\* keeps the place of the name.
StoreEntry(entries, e) ==
    IF \E i \in 1..Len(entries) : entries[i].name = e.name
    THEN [i \in 1..Len(entries) |->
            IF entries[i].name = e.name THEN e ELSE entries[i]]
    ELSE Append(entries, e)

\* An archive written last pair first.
SaveArchiveReversed(ps) ==
    [i \in 1..Len(ps) |-> ps[Len(ps) + 1 - i]]

RECURSIVE SaveArchive(_)
\* The entries of the archive written from the collected pairs.
SaveArchive(ps) ==
    IF ps = << >> THEN << >>
    ELSE StoreEntry(SaveArchive(SubSeq(ps, 1, Len(ps) - 1)), ps[Len(ps)])

\* np.load(outname).files: the stored names, in stored order.
StoredNames(a) == [i \in 1..Len(a) |-> a[i].name]

\* A module not in use while an archive is built.
IdleModule ==
    __init__(PathToX, PathToY, "name", << "y" >>, NoneVal,
             "None", "None", "None", FALSE,
             DefaultBatchSize, DefaultBatchSize, NoneVal)

\* The lists of at most MaxFiles files, no file listed twice.
FileLists ==
    { fs \in UNION { [1..k -> StructureFiles] : k \in 0..MaxFiles } :
        \A i, j \in 1..Len(fs) : fs[i] = fs[j] => i = j }

InitBuild ==
    /\ fnames \in FileLists
    /\ shuffle \in BOOLEAN
    /\ pairs = << >>
    /\ archive = NoneVal
    /\ pc = "read"
    /\ self = IdleModule
    /\ disk = DefaultDisk
    /\ ret = NoCall
    /\ called = {}
    /\ done = {}

\* Read the next file; a file that does not parse aborts the build.
ReadFile ==
    /\ pc = "read"
    /\ Len(pairs) < Len(fnames)
    /\ LET r == pcd_from_file(fnames[Len(pairs) + 1])
       IN  IF r.outcome = "ok"
           THEN /\ pairs' = Append(pairs, r.value)
                /\ pc' = "read"
           ELSE /\ pairs' = pairs
                /\ pc' = "BuildError"
    /\ UNCHANGED << fnames, shuffle, archive, dmVars >>

\* shuffle=True: one random permutation of the collected pairs.
ShufflePairs ==
    /\ pc = "read"
    /\ Len(pairs) = Len(fnames)
    /\ shuffle
    /\ \E p \in ShuffleOrders(Len(pairs)) :
          pairs' = [i \in 1..Len(pairs) |-> pairs[p[i]]]
    /\ pc' = "write"
    /\ UNCHANGED << fnames, shuffle, archive, dmVars >>

\* Write all the pairs to outname as one archive.
WriteArchive ==
    /\ \/ pc = "write"
       \/ pc = "read" /\ Len(pairs) = Len(fnames) /\ ~shuffle
    /\ archive' = Some(SaveArchive(pairs))
    /\ pc' = "done"
    /\ UNCHANGED << fnames, shuffle, pairs, dmVars >>

NextBuild ==
    \/ ReadFile
    \/ ShufflePairs
    \/ WriteArchive

SpecBuild == InitBuild /\ [][NextBuild]_vars

(* ------------------------------ claims --------------------------------- *)

\* The failure of a loader request for a split that is not set up: reading
\* a dataset attribute that setup has not assigned yet.
NotReadyError == "AttributeError"

\* The part of an object outside the attributes in attrs.
Except(obj, attrs) == [a \in DOMAIN obj \ attrs |-> obj[a]]

FitAttrs == {"_train_names", "_val_names", "train_dataset",
             "validation_dataset"}

TestAttrs == {"_test_names", "test_dataset"}

\* The first n entries of seq (all of them when n is None).
FirstEntries(seq, n) ==
    IF n = NoneVal THEN seq
    ELSE [i \in 1..Min(n[1], Len(seq)) |-> seq[i]]

Distinct(seq) ==
    \A i, j \in 1..Len(seq) : seq[i] = seq[j] => i = j

Stems == [i \in 1..Len(fnames) |-> Stem(fnames[i])]

Range(seq) == { seq[i] : i \in 1..Len(seq) }

\* C1: the loader request for the train, validation or test split fails
\* with NotReadyError as long as setup was never called with a stage that
\* covers the split (None or 'fit' for train and validation, None or 'test'
\* for test), and succeeds once setup has returned for such a stage; so the
\* test loader fails after setup('fit') alone and succeeds after
\* setup('test').
C1_NotReadyBeforeSetup ==
    ret.op = "loader" =>
        /\ (ret.arg \in {"train", "validation"}
                /\ called \cap {"None", "fit"} = {})
              => ret.outcome = NotReadyError
        /\ (ret.arg = "test" /\ called \cap {"None", "test"} = {})
              => ret.outcome = NotReadyError
        /\ (ret.arg \in {"train", "validation"}
                /\ done \cap {"None", "fit"} # {})
              => ret.outcome = "ok"
        /\ (ret.arg = "test" /\ done \cap {"None", "test"} # {})
              => ret.outcome = "ok"

\* C1: the test loader was requested after setup('fit') alone, and failed.
C1_Witness ==
    /\ ret.op = "loader"
    /\ ret.arg = "test"
    /\ done = {"fit"}
    /\ ret.outcome = NotReadyError

\* C2: after setup with stage None or 'fit' the train names are the first
\* train_size entries of the train manifest (all of it when train_size is
\* None), the validation names are the whole validation manifest, and each
\* dataset is as long as its name list.
C2_TrainPrefix ==
    (ret.op = "setup" /\ ret.arg \in {"None", "fit"} /\ ret.outcome = "ok")
    =>  /\ self._train_names
              = FirstEntries(disk[TrainJson], self.train_size)
        /\ self._val_names = disk[ValidationJson]
        /\ self.train_dataset.pcd_names = self._train_names
        /\ self.validation_dataset.pcd_names = self._val_names
        /\ DatasetLen(self.train_dataset) = Len(self._train_names)
        /\ DatasetLen(self.validation_dataset) = Len(self._val_names)

\* C3: a setup call that follows a successful setup call with the same
\* stage succeeds and leaves every name list and dataset as it was.
C3_SetupIdempotent ==
    [][(/\ ret.op = "setup"
        /\ ret.outcome = "ok"
        /\ ret'.op = "setup"
        /\ ret'.arg = ret.arg
        /\ ret'.repeat = ret.repeat + 1)
       => (self' = self /\ ret'.outcome = "ok")]_vars

\* C3: setup(None) was called twice in a row over a truncated train
\* manifest.
C3_Witness ==
    /\ ret.op = "setup"
    /\ ret.arg = "None"
    /\ ret.repeat = 2
    /\ ret.outcome = "ok"
    /\ self.train_size = Some(1)
    /\ Len(self._train_names) = 1

\* C4: setup('fit') assigns the train and validation names and datasets
\* and nothing else, setup('test') assigns the test names and dataset and
\* nothing else, and setup(None) assigns all of them; a test dataset that
\* was never set stays absent over setup('fit').
C4_StagesIndependent ==
    [][(ret'.op = "setup" /\ ret' # ret) =>
        /\ ret'.arg = "fit" =>
              /\ Except(self', FitAttrs) = Except(self, FitAttrs)
              /\ ret'.outcome = "ok" => FitAttrs \subseteq DOMAIN self'
        /\ ret'.arg = "test" =>
              /\ Except(self', TestAttrs) = Except(self, TestAttrs)
              /\ ret'.outcome = "ok" => TestAttrs \subseteq DOMAIN self'
        /\ ret'.arg = "None" =>
              /\ Except(self', FitAttrs \cup TestAttrs)
                    = Except(self, FitAttrs \cup TestAttrs)
              /\ ret'.outcome = "ok"
                    => (FitAttrs \cup TestAttrs) \subseteq DOMAIN self']_vars

\* C4: setup('fit') has just returned in a module whose test dataset was
\* built before by setup('test').
C4_Witness ==
    /\ ret.op = "setup"
    /\ ret.arg = "fit"
    /\ ret.outcome = "ok"
    /\ done = {"test", "fit"}
    /\ HasAttr(self, "test_dataset")
    /\ HasAttr(self, "train_dataset")

C6_PredictServed ==
    (ret.op = "loader" /\ ret.arg = "predict"
        /\ done \cap {"None", "test"} # {})
    =>  /\ ret.outcome = "ok"
        /\ "batch_size" \in DOMAIN ret.value
        /\ ret.value.batch_size = self.eval_batch_size

\* C7: the train dataset carries train_transform_x, the validation and
\* test datasets carry eval_transform_x, all carry transform_y; where the
\* two point-cloud transforms differ, neither is attached to a split of
\* the other kind.
C7_TransformsPerSplit ==
    /\ HasAttr(self, "train_dataset") =>
          /\ self.train_dataset.transform_x = self.train_transform_x
          /\ self.train_dataset.transform_y = self.transform_y
          /\ self.train_transform_x # self.eval_transform_x
                => self.train_dataset.transform_x # self.eval_transform_x
    /\ \A a \in {"validation_dataset", "test_dataset"} :
          HasAttr(self, a) =>
              /\ self[a].transform_x = self.eval_transform_x
              /\ self[a].transform_y = self.transform_y
              /\ self.train_transform_x # self.eval_transform_x
                    => self[a].transform_x # self.train_transform_x

\* C7: all three datasets are built in a module whose train and eval
\* transforms differ.
C7_Witness ==
    /\ {"train_dataset", "validation_dataset", "test_dataset"}
          \subseteq DOMAIN self
    /\ self.train_transform_x = "RandomRotation"
    /\ self.eval_transform_x = "Center"
    /\ self.transform_y = "Standardize"

\* C8 as stated: without shuffle the stored names are the stems of the
\* input files, in input order and as many as the files, for every list
\* of files.
C8_StoredOrderAnyFiles ==
    (pc = "done" /\ ~shuffle) =>
        /\ StoredNames(archive[1]) = Stems
        /\ Len(archive[1]) = Len(fnames)

\* C8: without shuffle the stored names are the stems of the input files,
\* in input order and as many as the files, for every list of files whose
\* stems are pairwise distinct.
C8_StoredOrder ==
    (pc = "done" /\ ~shuffle /\ Distinct(Stems)) =>
        /\ StoredNames(archive[1]) = Stems
        /\ Len(archive[1]) = Len(fnames)

\* C8: an archive of two files was written without shuffle.
C8_Witness ==
    /\ pc = "done"
    /\ ~shuffle
    /\ Stems = << "IRMOF-1", "Cu-BTC" >>
    /\ Len(archive[1]) = 2

\* C9 as stated: with shuffle the stored names are the stems as a set, as
\* many as the input files and none twice, for every list of files.
C9_PermutationAnyFiles ==
    (pc = "done" /\ shuffle) =>
        /\ Range(StoredNames(archive[1])) = Range(Stems)
        /\ Len(archive[1]) = Len(fnames)
        /\ Distinct(StoredNames(archive[1]))

\* C9: with shuffle the stored names are the stems as a set, as many as
\* the input files and none twice, for every list of files whose stems are
\* pairwise distinct.
C9_Permutation ==
    (pc = "done" /\ shuffle /\ Distinct(Stems)) =>
        /\ Range(StoredNames(archive[1])) = Range(Stems)
        /\ Len(archive[1]) = Len(fnames)
        /\ Distinct(StoredNames(archive[1]))

\* C9: an archive of two files was written with shuffle, in the other
\* order.
C9_Witness ==
    /\ pc = "done"
    /\ shuffle
    /\ Stems = << "IRMOF-1", "Cu-BTC" >>
    /\ StoredNames(archive[1]) = << "Cu-BTC", "IRMOF-1" >>

\* C10: setup with stage None or 'fit' does not return normally when
\* train_size is negative or larger than the train manifest.
C10_TrainSizeValidated ==
    (/\ ret.op = "setup"
     /\ ret.arg \in {"None", "fit"}
     /\ TrainJson \in DOMAIN disk
     /\ self.train_size # NoneVal
     /\ \/ self.train_size[1] < 0
        \/ self.train_size[1] > Len(disk[TrainJson]))
    => ret.outcome # "ok"

====
